---- MODULE Spec2Model ----
(***************************************************************************)
(* Model of the tooth-erosion animation of apchemvis:                      *)
(*   src/app.py  ToothAnimationGenerator (__init__, update,                *)
(*               create_animation) and the animation branch of main();     *)
(*   src/main.py ToothSimulation.update is the same state machine.         *)
(*                                                                         *)
(* Numbers: every length (x, y, thickness, speed) and every alpha is an    *)
(* integer count of 1e-4, so 0.05 is 500 and 0.3 is 3000.  Arrays are      *)
(* sequences indexed from 1.  A matplotlib artist that is None or holds no *)
(* data is the empty sequence << >>.                                       *)
(***************************************************************************)
EXTENDS Integers, Sequences, FiniteSets, TLC

\* ---------------------------------------------------------------- bounds
\* Samples of the surface (np.linspace(-2.5, 2.5, 200) in the code).
NumSamples == 5
\* Acid particles (100 in the code).
NumParticles == 3
\* Streams the global random generator can produce (one per seed).
NumStreams == 6
\* Direct update() calls made by an API user in SpecUpdate.
MaxCalls == 3
\* Frame at which a save that fails mid-sequence fails.
FailFrame == 125

\* ------------------------------------------------------ program constants
AttackEnd == 60
ErosionEnd == 120
NumFrames == 200
DropSpeed == 500
Clearance == 1000
Margin == 1000
DentinOffset == 8000
CoatingStart == 120
CoatingRate == 50
CoatingCap == 3000
AlphaInit == 6000
NoteFrame == 150
NumWriters == 3

writers_to_try == <<"pillow", "imagemagick", "ffmpeg">>

Max(a, b) == IF a >= b THEN a ELSE b
Min(a, b) == IF a <= b THEN a ELSE b

\* ------------------------------------------------------------- geometry
\* np.linspace(-2.5, 2.5, n)[i-1], rounded to the unit.
Linspace(n, i) == -25000 + (2 * 50000 * (i - 1) + (n - 1)) \div (2 * (n - 1))

x_tooth_init == [i \in 1..NumSamples |-> Linspace(NumSamples, i)]

\* 0.5 * np.cos(x_tooth * 2) at the n sample points, rounded to the unit.
HalfCos2x(n) ==
    CASE n = 2 -> <<1418, 1418>>
      [] n = 3 -> <<1418, 5000, 1418>>
      [] n = 4 -> <<1418, -479, -479, 1418>>
      [] n = 5 -> <<1418, -4006, 5000, -4006, 1418>>
      [] n = 6 -> <<1418, -4950, 2702, 2702, -4950, 1418>>
      [] n = 7 -> <<1418, -4908, -479, 5000, -479, -4908, 1418>>

\* 1.5 - 0.5 * cos(2x) - 0.2 * x**2
y_surface_base ==
    [i \in 1..NumSamples |->
        15000 - HalfCos2x(NumSamples)[i]
              - (x_tooth_init[i] * x_tooth_init[i]) \div 50000]

dentin_surface_init == [i \in 1..NumSamples |-> y_surface_base[i] - DentinOffset]

\* np.interp(x, xp, fp): piecewise linear, constant outside [xp[1], xp[n]].
Interp(x, xp, fp) ==
    LET n == Len(xp) IN
    IF x <= xp[1] THEN fp[1]
    ELSE IF x >= xp[n] THEN fp[n]
    ELSE LET k == CHOOSE j \in 1..(n - 1) : xp[j] <= x /\ x < xp[j + 1]
         IN  fp[k] + ((x - xp[k]) * (fp[k + 1] - fp[k])) \div (xp[k + 1] - xp[k])

\* ------------------------------------------------------------ randomness
\* The module-global generator of np.random: a stream fixed by its seed and
\* the number of array draws made so far.  One draw yields, for element i,
\* a value u in 0..9999 standing for the float u/10000 in [0, 1).
\* Stream 1 always draws the least value, stream 2 the greatest.
RandUnit(g, i) ==
    CASE g.stream = 1 -> 0
      [] g.stream = 2 -> 9999
      [] OTHER -> (g.stream * 7919 + g.pos * 2741 + i * 6133) % 10000

\* np.random.uniform(lo, hi, n)[i-1]
Uniform(g, lo, hi, i) == lo + ((hi - lo) * RandUnit(g, i)) \div 10000

Advance(g) == [g EXCEPT !.pos = g.pos + 1]

\* ----------------------------------------------------------------- state
VARIABLES
    x_tooth,            \* self.x_tooth
    dentin_surface,     \* self.dentin_surface
    current_enamel_y,   \* self.current_enamel_y
    enamel_poly,        \* self.enamel_poly: [y1, y2, color]
    enamel_line,        \* self.enamel_line: its ydata
    acid_x,             \* self.acid_x
    acid_y,             \* self.acid_y
    acid_particles,     \* self.acid_particles: [data, alpha, visible]
    coating_poly,       \* self.coating_poly: << >> (None) or <<y1, y2>>
    title,              \* self.title: [text, frame, color]
    texts,              \* annotations added to self.ax by update
    np_random,          \* np.random's generator: [stream, pos]
    frame,              \* argument of the latest update() call
    calls,              \* update() calls made so far
    outcome,            \* how the latest update() call ended
    pc,                 \* position of main() / create_animation()
    writer,             \* index into writers_to_try of the current attempt
    it,                 \* next frame index FuncAnimation will dispatch
    tmp_files,          \* temporary .gif files on disk (by writer index)
    anim_path,          \* file returned by create_animation (0: none)
    shown,              \* st.image has displayed the GIF
    static_renders,     \* times ToothSimulationStatic.create_stages ran
    errors              \* st.error messages shown

simVars == <<x_tooth, dentin_surface, current_enamel_y, enamel_poly, enamel_line,
             acid_x, acid_y, acid_particles, coating_poly, title, texts, np_random>>
callVars == <<frame, calls, outcome>>
mainVars == <<pc, writer, it, tmp_files, anim_path, shown, static_renders, errors>>
vars == <<simVars, callVars, mainVars>>

\* ------------------------------------------------------ __init__ (state)
Constructed(s) ==
    LET g0 == [stream |-> s, pos |-> 0]
        g1 == Advance(g0)
    IN  /\ x_tooth = x_tooth_init
        /\ dentin_surface = dentin_surface_init
        /\ current_enamel_y = y_surface_base
        /\ enamel_poly = [y1 |-> dentin_surface_init, y2 |-> y_surface_base,
                          color |-> "whitesmoke"]
        /\ enamel_line = y_surface_base
        /\ acid_particles = [data |-> << >>, alpha |-> AlphaInit, visible |-> TRUE]
        /\ acid_x = [i \in 1..NumParticles |-> Uniform(g0, -25000, 25000, i)]
        /\ acid_y = [i \in 1..NumParticles |-> Uniform(g1, 20000, 35000, i)]
        /\ np_random = Advance(g1)
        /\ coating_poly = << >>
        /\ title = [text |-> "Initial State: Healthy Tooth Enamel", frame |-> 0,
                    color |-> "black"]
        /\ texts = 0
        /\ frame = 0
        /\ calls = 0
        /\ outcome = "none"

\* --------------------------------------------------------------- update
\* Mutant: the Attack phase takes frame 60 too (<= for <).
PhaseInclusive(f) ==
    IF f <= AttackEnd THEN "Attack"
    ELSE IF f < ErosionEnd THEN "Erosion"
    ELSE "Coating"

\* if frame < 60 / elif frame < 120 / else
Phase(f) ==
    IF f < AttackEnd THEN "Attack"
    ELSE IF f < ErosionEnd THEN "Erosion"
    ELSE "Coating"

\* Mutant: the particles move up (+= for -=).
FallUp(ys) == [i \in DOMAIN ys |-> ys[i] + DropSpeed]

\* self.acid_y -= drop_speed
Fall(ys) == [i \in DOMAIN ys |-> ys[i] - DropSpeed]

\* mask = acid_y < interp(...); acid_y[mask] = interp(...) + 0.1
Collide(xs, ys, xp, fp) ==
    [i \in DOMAIN ys |->
        IF ys[i] < Interp(xs[i], xp, fp)
        THEN Interp(xs[i], xp, fp) + Clearance
        ELSE ys[i]]

AttackStep(xs, ys, xp, fp) == Collide(xs, Fall(ys), xp, fp)

\* 0.005 * np.sin(frame) for frame = 60..119, rounded to the unit.
SinTable ==
    <<-15, -48, -37, 8, 46, 41, -1, -43, -45, -6, 39, 48, 13, -34, -49, -19,
      28, 50, 26, -22, -50, -31, 16, 48, 37, -9, -46, -41, 2, 43, 45, 5, -39,
      -47, -12, 34, 49, 19, -29, -50, -25, 23, 50, 31, -16, -49, -36, 9, 46,
      41, -2, -43, -44, -5, 39, 47, 12, -34, -49, -19>>

ErosionSine(f) == SinTable[f - AttackEnd + 1]

\* erosion_factor[i] = 0.005 * sin(frame) + 0.002 * rand[i]
ErosionFactor(f, g, i) == ErosionSine(f) + (20 * RandUnit(g, i)) \div 10000

\* Mutant: np.minimum where the code has np.maximum.
ClampBelowFloor(y, dentin) ==
    [i \in DOMAIN y |-> Min(y[i], dentin[i] + Margin)]

\* np.maximum(current_enamel_y, dentin_surface + 0.1)
ClampAboveDentin(y, dentin) ==
    [i \in DOMAIN y |-> Max(y[i], dentin[i] + Margin)]

Erode(y, dentin, f, g) ==
    ClampAboveDentin([i \in DOMAIN y |-> y[i] - ErosionFactor(f, g, i)], dentin)

\* Mutant: the fade counts from frame 61.
FadeAlphaLate(f) == Max(0, 6000 - (f - 61) * 100)

\* max(0, 0.6 - (frame - 60) / 100)
FadeAlpha(f) == Max(0, 6000 - (f - 60) * 100)

\* Mutant: the growth starts one frame early.
CoatingThicknessEarly(f) == (f - CoatingStart + 1) * CoatingRate

\* coating_thickness = (frame - 120) * 0.005
CoatingThickness(f) == (f - CoatingStart) * CoatingRate

\* Mutant: np.maximum where the code has np.minimum.
TargetCoatingMax(y, f) ==
    [i \in DOMAIN y |-> Max(y[i] + CoatingThickness(f), y[i] + CoatingCap)]

\* np.minimum(current_enamel_y + coating_thickness, current_enamel_y + 0.3)
TargetCoating(y, f) ==
    [i \in DOMAIN y |-> Min(y[i] + CoatingThickness(f), y[i] + CoatingCap)]

UpdateAttack(f) ==
    /\ title' = [text |-> "Phase 1: Acid Attack (pH < 5.5) - Frame: ",
                 frame |-> f, color |-> "black"]
    /\ acid_y' = AttackStep(acid_x, acid_y, x_tooth, current_enamel_y)
    /\ acid_particles' = [acid_particles EXCEPT !.data = <<acid_x, acid_y'>>]
    /\ UNCHANGED <<x_tooth, dentin_surface, current_enamel_y, enamel_poly,
                   enamel_line, acid_x, coating_poly, texts, np_random>>

UpdateErosion(f) ==
    /\ title' = [text |-> "Phase 2: Enamel Erosion (Ca10(PO4)6(OH)2 Dissolution)",
                 frame |-> 0, color |-> "red"]
    /\ current_enamel_y' = Erode(current_enamel_y, dentin_surface, f, np_random)
    /\ np_random' = Advance(np_random)
    /\ enamel_poly' = [y1 |-> dentin_surface, y2 |-> current_enamel_y',
                       color |-> "#E8E8E8"]
    /\ enamel_line' = current_enamel_y'
    /\ acid_particles' = IF f % 2 = 0
                         THEN [acid_particles EXCEPT !.alpha = FadeAlpha(f)]
                         ELSE acid_particles
    /\ UNCHANGED <<x_tooth, dentin_surface, acid_x, acid_y, coating_poly, texts>>

UpdateCoating(f) ==
    /\ title' = [text |-> "Phase 3: New Coating Application (Remineralization/Protection)",
                 frame |-> 0, color |-> "blue"]
    /\ acid_particles' = [acid_particles EXCEPT !.visible = FALSE]
    /\ coating_poly' = <<current_enamel_y, TargetCoating(current_enamel_y, f)>>
    /\ texts' = IF f = NoteFrame THEN texts + 1 ELSE texts
    /\ UNCHANGED <<x_tooth, dentin_surface, current_enamel_y, enamel_poly,
                   enamel_line, acid_x, acid_y, np_random>>

\* update(frame): one phase by the frame index, then the return.
Update(f) ==
    /\ CASE Phase(f) = "Attack" -> UpdateAttack(f)
         [] Phase(f) = "Erosion" -> UpdateErosion(f)
         [] OTHER -> UpdateCoating(f)
    /\ frame' = f
    /\ calls' = calls + 1
    /\ outcome' = "returned"

\* ------------------------------------------- main() and create_animation
\* main(): the sidebar checkbox decides between the animation and the
\* static images.
MainAnimation ==
    /\ pc = "main"
    /\ pc' = "writer_loop"
    /\ writer' = 1
    /\ UNCHANGED <<simVars, callVars, it, tmp_files, anim_path, shown,
                   static_renders, errors>>

MainStatic ==
    /\ pc = "main"
    /\ pc' = "done"
    /\ static_renders' = static_renders + 1
    /\ UNCHANGED <<simVars, callVars, writer, it, tmp_files, anim_path, shown, errors>>

\* for writer in writers_to_try: NamedTemporaryFile(delete=False), ani.save
BeginAttempt ==
    /\ pc = "writer_loop"
    /\ writer <= NumWriters
    /\ tmp_files' = tmp_files \cup {writer}
    /\ it' = 0
    /\ pc' = "saving"
    /\ UNCHANGED <<simVars, callVars, writer, anim_path, shown, static_renders, errors>>

\* Mutant: the frame sequence starts at 1 (range(1, 201)).
SaveFrameOffByOne ==
    /\ pc = "saving"
    /\ it < NumFrames
    /\ Update(it + 1)
    /\ it' = it + 1
    /\ UNCHANGED <<pc, writer, tmp_files, anim_path, shown, static_renders, errors>>

\* ani.save dispatches the frames 0..199 to update, in order.
SaveFrame ==
    /\ pc = "saving"
    /\ it < NumFrames
    /\ Update(it)
    /\ it' = it + 1
    /\ UNCHANGED <<pc, writer, tmp_files, anim_path, shown, static_renders, errors>>

\* ani.save raises (writer missing: before any frame; or mid-sequence):
\* except Exception: continue
SaveFail ==
    /\ pc = "saving"
    /\ it \in {0, FailFrame}
    /\ writer' = writer + 1
    /\ pc' = "writer_loop"
    /\ UNCHANGED <<simVars, callVars, it, tmp_files, anim_path, shown,
                   static_renders, errors>>

\* Mutant: the path is kept but the loop goes on to the next writer.
SaveDoneNoReturn ==
    /\ pc = "saving"
    /\ it = NumFrames
    /\ anim_path' = writer
    /\ writer' = writer + 1
    /\ pc' = "writer_loop"
    /\ UNCHANGED <<simVars, callVars, it, tmp_files, shown, static_renders, errors>>

\* return tmp_file.name, "gif"
SaveDone ==
    /\ pc = "saving"
    /\ it = NumFrames
    /\ anim_path' = writer
    /\ pc' = "display"
    /\ UNCHANGED <<simVars, callVars, writer, it, tmp_files, shown,
                   static_renders, errors>>

\* the loop ends without a return: raise Exception("No suitable ...")
WritersExhausted ==
    /\ pc = "writer_loop"
    /\ writer > NumWriters
    /\ pc' = "except"
    /\ UNCHANGED <<simVars, callVars, writer, it, tmp_files, anim_path, shown,
                   static_renders, errors>>

\* st.image(anim_path, ...): displays, or raises into main's except.
Display ==
    /\ pc = "display"
    /\ \E ok \in BOOLEAN :
          IF ok THEN shown' = TRUE /\ pc' = "unlink"
                ELSE shown' = shown /\ pc' = "except"
    /\ UNCHANGED <<simVars, callVars, writer, it, tmp_files, anim_path,
                   static_renders, errors>>

\* os.unlink(anim_path): deletes, or raises into main's except.
Unlink ==
    /\ pc = "unlink"
    /\ \E ok \in BOOLEAN :
          IF ok THEN tmp_files' = tmp_files \ {anim_path} /\ pc' = "done"
                ELSE tmp_files' = tmp_files /\ pc' = "except"
    /\ UNCHANGED <<simVars, callVars, writer, it, anim_path, shown,
                   static_renders, errors>>

\* except Exception as e: st.error, st.info, ToothSimulationStatic().create_stages()
Fallback ==
    /\ pc = "except"
    /\ errors' = errors + 1
    /\ static_renders' = static_renders + 1
    /\ pc' = "done"
    /\ UNCHANGED <<simVars, callVars, writer, it, tmp_files, anim_path, shown>>

MainInit ==
    /\ writer = 0
    /\ it = 0
    /\ tmp_files = {}
    /\ anim_path = 0
    /\ shown = FALSE
    /\ static_renders = 0
    /\ errors = 0

\* The program: main() with a freshly constructed generator.
Init ==
    /\ \E s \in 1..NumStreams : Constructed(s)
    /\ MainInit
    /\ pc = "main"

Next ==
    \/ MainAnimation
    \/ MainStatic
    \/ BeginAttempt
    \/ SaveFrame
    \/ SaveFail
    \/ SaveDone
    \/ WritersExhausted
    \/ Display
    \/ Unlink
    \/ Fallback

Spec == Init /\ [][Next]_vars

\* main() is sequential code: whenever it has a next step, it takes one.
FairSpec == Spec /\ WF_vars(Next)

\* ------------------------------------------------ the class used directly
\* Frame arguments a caller of update() may pass, in any order: the edges of
\* every phase, and one index on each side of the configured range.
FrameArgs ==
    {-1, 0, AttackEnd - 1, AttackEnd, AttackEnd + 1, ErosionEnd - 1, ErosionEnd,
     NoteFrame, NumFrames - 1, NumFrames}

Call ==
    /\ pc = "api"
    /\ calls < MaxCalls
    /\ \E f \in FrameArgs : Update(f)
    /\ UNCHANGED mainVars

InitUpdate ==
    /\ \E s \in 1..NumStreams : Constructed(s)
    /\ MainInit
    /\ pc = "api"

NextUpdate == Call

SpecUpdate == InitUpdate /\ [][NextUpdate]_vars

\* =============================================================== claims
\* A step that is one update() call.
UpdateStep == calls' = calls + 1

\* The latest update() call was a frame of the Coating phase, in range.
InCoating == calls > 0 /\ frame >= 120 /\ frame <= 199

\* coating boundary minus surface at sample i (a coating polygon exists).
Thickness(i) == coating_poly[2][i] - current_enamel_y[i]

\* C1: in every state of a run that constructs the simulation and dispatches
\* the frames in order, every surface sample is at least the minimum margin
\* 0.1 above the substrate: before, during and after the Erosion phase.
C1_SurfaceAboveSubstrate ==
    \A i \in 1..NumSamples : current_enamel_y[i] >= dentin_surface[i] + 1000

\* An Erosion phase is over and has changed the surface.
C1_Witness ==
    /\ InCoating
    /\ \A i \in 1..NumSamples : current_enamel_y[i] < y_surface_base[i]

\* C2: every Coating tick leaves the thickness at most the cap 0.3, and across
\* two consecutive Coating ticks f, f+1 the thickness does not decrease.
C2_CoatingMonotoneCapped ==
    [][(UpdateStep /\ frame' >= 120 /\ frame' <= 199) =>
         /\ \A i \in 1..NumSamples : Thickness(i)' <= 3000
         /\ (InCoating /\ frame' = frame + 1) =>
               \A i \in 1..NumSamples : Thickness(i)' >= Thickness(i)]_vars

\* Mid-growth: the thickness has grown and is still below the cap.
C2_Witness ==
    /\ InCoating
    /\ frame = 150
    /\ \A i \in 1..NumSamples : Thickness(i) > 0 /\ Thickness(i) < 3000

\* What an update() call of each phase, and of no other, does to the state.
AttackEffect ==
    /\ title'.text = "Phase 1: Acid Attack (pH < 5.5) - Frame: "
    /\ title'.frame = frame'
    /\ acid_particles'.data = <<acid_x', acid_y'>>
    /\ UNCHANGED <<current_enamel_y, enamel_line, coating_poly, np_random>>

ErosionEffect ==
    /\ title'.text = "Phase 2: Enamel Erosion (Ca10(PO4)6(OH)2 Dissolution)"
    /\ np_random'.pos = np_random.pos + 1
    /\ enamel_line' = current_enamel_y'
    /\ acid_particles'.data = acid_particles.data
    /\ UNCHANGED <<acid_x, acid_y, coating_poly>>

CoatingEffect ==
    /\ title'.text = "Phase 3: New Coating Application (Remineralization/Protection)"
    /\ Len(coating_poly') = 2
    /\ coating_poly'[1] = current_enamel_y
    /\ ~acid_particles'.visible
    /\ acid_particles'.data = acid_particles.data
    /\ UNCHANGED <<current_enamel_y, enamel_line, acid_x, acid_y, np_random>>

\* C3: for a frame index in 0..199, update performs the mutations of exactly
\* one phase, fixed by the index alone whatever the state before the call:
\* Attack iff 0 <= f < 60, Erosion iff 60 <= f < 120, Coating iff 120 <= f.
C3_OnePhasePerFrame ==
    [][(UpdateStep /\ frame' >= 0 /\ frame' <= 199) =>
         /\ AttackEffect <=> (0 <= frame' /\ frame' < 60)
         /\ ErosionEffect <=> (60 <= frame' /\ frame' < 120)
         /\ CoatingEffect <=> (120 <= frame')]_vars

\* An Attack frame dispatched after a Coating frame has built the coating.
C3_Witness ==
    /\ calls = 3
    /\ frame = 0
    /\ title.text = "Phase 1: Acid Attack (pH < 5.5) - Frame: "
    /\ Len(coating_poly) = 2
    /\ Len(acid_particles.data) = 2

\* Particle i rests on the surface: its y is the interpolated surface height
\* at its x plus the clearance 0.1.
Resting(i) ==
    acid_y[i] = Interp(acid_x[i], x_tooth, current_enamel_y) + 1000

\* C4: an Attack step leaves every resting (clamped) particle resting: its y
\* stays the surface height at its x plus 0.1, it does not move down again.
C4_RestingParticleStays ==
    [][(UpdateStep /\ frame' >= 0 /\ frame' < 60) =>
         \A i \in 1..NumParticles : Resting(i) => Resting(i)']_vars

\* C5: on an Erosion tick no surface sample rises: each sample's y after the
\* tick is at most its y before, or is at the floor dentin_surface + 0.1.
C5_ErosionNeverRaises ==
    [][(UpdateStep /\ frame' >= 60 /\ frame' < 120) =>
         \A i \in 1..NumSamples :
            \/ current_enamel_y'[i] <= current_enamel_y[i]
            \/ current_enamel_y'[i] = dentin_surface[i] + 1000]_vars

\* C6: update with a frame index outside 0..199 ends in a fatal error and
\* mutates no sub-model.
C6_OutOfRangeIsFatal ==
    [][(UpdateStep /\ (frame' < 0 \/ frame' >= 200)) =>
         /\ outcome' = "raised"
         /\ UNCHANGED simVars]_vars

\* The state after construction and the single tick update(0).
AfterFirstTick == calls = 1 /\ frame = 0

\* The Attack phase ran, no coating exists, every particle of the population
\* is present, and each y lies in [lo, hi).
FirstTickState(lo, hi) ==
    /\ title.text = "Phase 1: Acid Attack (pH < 5.5) - Frame: "
    /\ title.frame = 0
    /\ coating_poly = << >>
    /\ acid_particles.visible
    /\ Len(acid_particles.data) = 2
    /\ Len(acid_particles.data[1]) = NumParticles
    /\ Len(acid_particles.data[2]) = NumParticles
    /\ \A i \in 1..NumParticles :
          /\ acid_particles.data[2][i] = acid_y[i]
          /\ lo <= acid_y[i]
          /\ acid_y[i] < hi

\* C7 as stated: after update(0) every particle's y is in [2.0, 3.5).
C7_FirstTickInSpawnRange == AfterFirstTick => FirstTickState(20000, 35000)

\* C7 amended: after update(0) the phase is Attack, no coating exists, and
\* every particle is present with y in [1.95, 3.45), the spawn range lowered
\* by the one fall step of frame 0.
C7_FirstTickAfterFall == AfterFirstTick => FirstTickState(19500, 34500)

\* After update(0) a particle spawned near 2.0 is below the spawn range.
C7_Witness ==
    /\ AfterFirstTick
    /\ pc = "saving"
    /\ \E i \in 1..NumParticles : acid_y[i] < 20000

\* C8: at every Coating tick f the coating's upper boundary is the surface
\* plus min((f - 120) * 0.005, 0.3): 0.15 at f = 150, 0.3 from f = 180 on.
C8_CoatingBoundary ==
    InCoating =>
       /\ Len(coating_poly) = 2
       /\ \A i \in 1..NumSamples :
             /\ coating_poly[2][i] =
                   current_enamel_y[i] + Min((frame - 120) * 50, 3000)
             /\ frame = 150 => Thickness(i) = 1500
             /\ frame >= 180 => Thickness(i) = 3000

\* The cap is first reached, at frame 180.
C8_Witness ==
    /\ InCoating
    /\ frame = 180
    /\ \A i \in 1..NumSamples : coating_poly[2][i] = current_enamel_y[i] + 3000

\* main() has finished its animation branch.
AnimationDone == pc = "done" /\ writer >= 1

\* Every writer failed: create_animation raised and main rendered the static
\* figure exactly once.
AllWritersFailed ==
    /\ writer = NumWriters + 1
    /\ ~shown
    /\ errors = 1
    /\ static_renders = 1

\* Writer number `writer` succeeded: no later writer was tried and its file
\* is the one returned.
FirstSuccessReturned ==
    /\ writer <= NumWriters
    /\ anim_path = writer

InErosion == calls > 0 /\ frame >= 60 /\ frame < 120

\* C11 as stated: after every Erosion tick f, odd or even, the acid-particle
\* alpha is max(0, 0.6 - (f - 60) / 100).
C11_LinearFade ==
    InErosion => acid_particles.alpha = Max(0, 6000 - (frame - 60) * 100)

\* C11 amended: an Erosion tick with even f sets the alpha to
\* max(0, 0.6 - (f - 60) / 100); one with odd f leaves the alpha as it was.
C11_FadeOnEvenFrames ==
    [][(UpdateStep /\ frame' >= 60 /\ frame' < 120) =>
         IF frame' % 2 = 0
         THEN acid_particles'.alpha = Max(0, 6000 - (frame' - 60) * 100)
         ELSE acid_particles'.alpha = acid_particles.alpha]_vars

\* After the odd frame 61 the alpha is still the 0.6 that frame 60 set.
C11_Witness ==
    /\ InErosion
    /\ frame = 61
    /\ acid_particles.alpha = 6000

\* The phase a title text names: 1 Attack, 2 Erosion, 3 Coating, 0 none yet.
PhaseRank(t) ==
    CASE t.text = "Phase 1: Acid Attack (pH < 5.5) - Frame: " -> 1
      [] t.text = "Phase 2: Enamel Erosion (Ca10(PO4)6(OH)2 Dissolution)" -> 2
      [] t.text = "Phase 3: New Coating Application (Remineralization/Protection)" -> 3
      [] OTHER -> 0

C13_IdleSubModelsUntouched ==
    [][UpdateStep =>
         /\ UNCHANGED <<dentin_surface, x_tooth>>
         /\ (0 <= frame' /\ frame' < 60) =>
               /\ UNCHANGED current_enamel_y
               /\ coating_poly' = << >>
         /\ (60 <= frame' /\ frame' < 120) =>
               /\ UNCHANGED <<acid_x, acid_y>>
               /\ coating_poly' = << >>
         /\ (120 <= frame' /\ frame' <= 199) =>
               UNCHANGED <<current_enamel_y, acid_x, acid_y>>]_vars

\* C14: when the animation branch of main() has finished, every temporary
\* .gif file create_animation made has been deleted.
C14_NoTempFileLeft == AnimationDone => tmp_files = {}

\* The particle heights __init__ drew: the generator's second array draw.
InitialAcidY ==
    [i \in 1..NumParticles |->
        Uniform([stream |-> np_random.stream, pos |-> 1], 20000, 35000, i)]

\* C15: every writer attempt starts from the freshly initialised state: when
\* its frame 0 is about to be dispatched the surface is y_surface_base and the
\* particles are at their initial heights and visible, and while the attempt
\* has dispatched only frames below 120 no coating polygon exists.
C15_AttemptStartsFresh ==
    /\ (pc = "saving" /\ it = 0) =>
          /\ current_enamel_y = y_surface_base
          /\ acid_y = InitialAcidY
          /\ acid_particles.visible
    /\ (pc = "saving" /\ it <= 120) => coating_poly = << >>

====
